---- MODULE Spec2Model ----
(***************************************************************************)
(* Model of the greedy time-blocking engine of lib/scheduling/types.ts:    *)
(* normalizeEvents, findFreeBlocks, allocateStudyBlocks and the public     *)
(* generateWeeklyPlan.  Instants are whole minutes on one timeline; an     *)
(* ISODateString is modelled as the pair <<hours, minutes>> so that        *)
(* parseISO / toISOString are real conversions.                            *)
(***************************************************************************)
EXTENDS Integers, Sequences, FiniteSets

VARIABLES request, original, calls

vars == <<request, original, calls>>

(***************************************************************************)
(* Bounds of the model and the sample values the inputs are drawn from.    *)
(***************************************************************************)
MaxEvents == 2
MaxTasks == 2
MaxCalls == 2

Points == {0, 30, 60, 90}
RangeStarts == {30, 90}
RangeEnds == {90, 120}
Buffers == {0, 15}
Priorities == {"HIGH", "MEDIUM", "LOW"}
Durations == {30, 90}
MinBlocks == {0, 60}
DueDates == {60, 120}

(***************************************************************************)
(* Program constants.                                                      *)
(***************************************************************************)
MinGapMinutes == 30
DefaultMinChunk == 30

(***************************************************************************)
(* 1. Helpers (date-fns and the JavaScript idioms the code uses).          *)
(***************************************************************************)
toISOString(t) == <<t \div 60, t % 60>>

parseDate(d) == d[1] * 60 + d[2]

addMinutes(d, n) == d + n

differenceInMinutes(a, b) == a - b

compareAsc(a, b) == IF a < b THEN -1 ELSE IF a > b THEN 1 ELSE 0

\* x || d : a falsy number (0, or an absent field, modelled as 0) gives d
OrDefault(x, d) == IF x = 0 THEN d ELSE x

MathMin(a, b) == IF a <= b THEN a ELSE b

\* The array with the element at input position i moved to position rank[i].
placeByRank(s, rank) == [k \in 1..Len(s) |-> s[CHOOSE i \in 1..Len(s) : rank[i] = k]]

\* Array.prototype.sort(cmp): in place and stable.  c[i][j] is the value
\* cmp(s[i], s[j]) of the comparator the code passes.  The element at input
\* position i lands after every element that compares smaller and after
\* every equal element that preceded it.
ArraySort(s, c) ==
    placeByRank(s, [i \in 1..Len(s) |->
                      1 + Cardinality({j \in 1..Len(s) :
                                         c[j][i] < 0 \/ (c[j][i] = 0 /\ j < i)})])

\* The same sort with equal elements left in reversed order (an unstable sort).
ArraySortTiesReversed(s, c) ==
    placeByRank(s, [i \in 1..Len(s) |->
                      1 + Cardinality({j \in 1..Len(s) :
                                         c[j][i] < 0 \/ (c[j][i] = 0 /\ j > i)})])

byStart(a, b) == compareAsc(parseDate(a.start), parseDate(b.start))

startOrder(s) == [i \in 1..Len(s) |-> [j \in 1..Len(s) |-> byStart(s[i], s[j])]]

(***************************************************************************)
(* 2. Core functions.                                                      *)
(***************************************************************************)
normalizeEventsUnstable(events) == ArraySortTiesReversed(events, startOrder(events))

\* Sorts the array it is given (in place) and returns it.
normalizeEvents(events) == ArraySort(events, startOrder(events))

proposedEndNoBuffer(eventStart, buffer) == eventStart

proposedEnd(eventStart, buffer) == addMinutes(eventStart, -buffer)

RECURSIVE freeBlocksLoop(_, _, _, _, _)
freeBlocksLoop(sorted, i, cursor, freeBlocks, constraints) ==
    IF i > Len(sorted) THEN [cursor |-> cursor, freeBlocks |-> freeBlocks]
    ELSE
      LET eventStart == parseDate(sorted[i].start)
          eventEnd == parseDate(sorted[i].end)
          buffer == OrDefault(constraints.minBufferMinutes, 0)
          pEnd == proposedEnd(eventStart, buffer)
          pushed == IF differenceInMinutes(pEnd, cursor) >= MinGapMinutes
                    THEN Append(freeBlocks, [start |-> cursor, end |-> pEnd])
                    ELSE freeBlocks
      IN  freeBlocksLoop(sorted, i + 1, addMinutes(eventEnd, buffer), pushed, constraints)

\* The check of the final gap after the last event.
finalGap(loop, rangeEnd) ==
    IF differenceInMinutes(rangeEnd, loop.cursor) >= MinGapMinutes
    THEN Append(loop.freeBlocks, [start |-> loop.cursor, end |-> rangeEnd])
    ELSE loop.freeBlocks

\* Returns the free blocks; sorted is what normalizeEvents left in the
\* array the caller passed.
findFreeBlocks(events, rangeStart, rangeEnd, constraints) ==
    [sorted |-> normalizeEvents(events),
     freeBlocks |-> finalGap(freeBlocksLoop(normalizeEvents(events), 1, rangeStart,
                                            <<>>, constraints),
                             rangeEnd)]

getScoreInverted(p) == IF p = "HIGH" THEN 1 ELSE IF p = "MEDIUM" THEN 2 ELSE 3

getScore(p) == IF p = "HIGH" THEN 3 ELSE IF p = "MEDIUM" THEN 2 ELSE 1

byPriorityThenDue(a, b) ==
    LET scoreDiff == getScore(b.priority) - getScore(a.priority)
    IN  IF scoreDiff # 0 THEN scoreDiff
        ELSE compareAsc(parseDate(a.dueDate), parseDate(b.dueDate))

studyEvent(task, i, newEventStart, newEventEnd) ==
    [id |-> [kind |-> "gen", of |-> task.id, block |-> i - 1],
     start |-> toISOString(newEventStart),
     end |-> toISOString(newEventEnd),
     type |-> "STUDY",
     assignmentId |-> task.id]

shrinkBlockNot(block, newEventEnd) == block

shrinkBlock(block, newEventEnd) == [start |-> newEventEnd, end |-> block.end]

RECURSIVE fillBlocks(_, _, _, _, _)
fillBlocks(task, i, freeBlocks, timeRemaining, taskAllocations) ==
    IF i > Len(freeBlocks) \/ timeRemaining <= 0
    THEN [freeBlocks |-> freeBlocks, timeRemaining |-> timeRemaining,
          taskAllocations |-> taskAllocations]
    ELSE
      LET block == freeBlocks[i]
          blockDuration == differenceInMinutes(block.end, block.start)
          minChunk == OrDefault(task.minBlockDuration, DefaultMinChunk)
      IN  IF blockDuration < minChunk
          THEN fillBlocks(task, i + 1, freeBlocks, timeRemaining, taskAllocations)
          ELSE
            LET allocDuration == MathMin(blockDuration, timeRemaining)
                newEventStart == block.start
                newEventEnd == addMinutes(block.start, allocDuration)
            IN  fillBlocks(task, i + 1,
                           [freeBlocks EXCEPT ![i] = shrinkBlock(block, newEventEnd)],
                           timeRemaining - allocDuration,
                           Append(taskAllocations,
                                  studyEvent(task, i, newEventStart, newEventEnd)))

unassignedEntryOriginal(task, timeRemaining) == task

unassignedEntry(task, timeRemaining) ==
    [task EXCEPT !.estimatedDurationMinutes = timeRemaining]

RECURSIVE allocateLoop(_, _, _, _, _)
\* The end of one task's turn (lines 240-247), fill being what the scan of
\* the blocks left.
afterFill(queue, q, fill, allocated, unassigned) ==
    allocateLoop(queue, q + 1, fill.freeBlocks,
                 allocated \o fill.taskAllocations,
                 IF fill.timeRemaining <= 0 THEN unassigned
                 ELSE Append(unassigned, unassignedEntry(queue[q], fill.timeRemaining)))

allocateLoop(queue, q, freeBlocks, allocated, unassigned) ==
    IF q > Len(queue)
    THEN [allocated |-> allocated, unassigned |-> unassigned, freeBlocks |-> freeBlocks]
    ELSE afterFill(queue, q,
                   fillBlocks(queue[q], 1, freeBlocks,
                              queue[q].estimatedDurationMinutes, <<>>),
                   allocated, unassigned)

queueOrder(s) ==
    [i \in 1..Len(s) |-> [j \in 1..Len(s) |-> byPriorityThenDue(s[i], s[j])]]

allocateStudyBlocks(freeBlocks, assignments, constraints) ==
    allocateLoop(ArraySort(assignments, queueOrder(assignments)), 1, freeBlocks, <<>>, <<>>)

RECURSIVE sumMinutes(_)
sumMinutes(events) ==
    IF events = <<>> THEN 0
    ELSE differenceInMinutes(parseDate(Head(events).end), parseDate(Head(events).start))
         + sumMinutes(Tail(events))

finalScheduleUnsorted(fixedEvents, allocated) == fixedEvents \o allocated

finalSchedule(fixedEvents, allocated) ==
    ArraySort(fixedEvents \o allocated, startOrder(fixedEvents \o allocated))

\* 3. Assemble Result.  found is what findFreeBlocks returned and left in
\* request.fixedEvents, result what allocateStudyBlocks returned.  Besides
\* the SchedulingResult (value) the record keeps the array normalizeEvents
\* sorted in place and the two intermediate values the properties speak of.
assembleResult(req, found, result) ==
    [fixedEvents |-> found.sorted,
     freeBlocks |-> found.freeBlocks,
     allocated |-> result.allocated,
     value |-> [plannedEvents |-> finalSchedule(found.sorted, result.allocated),
                unassignedTasks |-> result.unassigned,
                metrics |-> [allocatedStudyMinutes |-> sumMinutes(result.allocated),
                             tasksCompleted |-> Len(req.assignments) - Len(result.unassigned),
                             scheduleUtilization |-> 85],
                errors |-> <<>>]]

\* 2. Allocate Study Blocks.
planFrom(req, found) ==
    assembleResult(req, found,
                   allocateStudyBlocks(found.freeBlocks, req.assignments, req.constraints))

\* 1. Identify Free Blocks, then the rest of the call.
generateWeeklyPlan(req) ==
    planFrom(req, findFreeBlocks(req.fixedEvents, parseDate(req.rangeStart),
                                 parseDate(req.rangeEnd), req.constraints))

(***************************************************************************)
(* Requests.                                                               *)
(***************************************************************************)
SeqsUpTo(S, n) == UNION {[1..k -> S] : k \in 0..n}

fixedEvent(k, span) ==
    [id |-> [kind |-> "fixed", of |-> k, block |-> 0],
     start |-> toISOString(span[1]),
     end |-> toISOString(span[2]),
     type |-> "CLASS",
     assignmentId |-> 0]

assignmentTask(k, t) ==
    [id |-> k,
     dueDate |-> toISOString(t[1]),
     estimatedDurationMinutes |-> t[2],
     priority |-> t[3],
     minBlockDuration |-> t[4]]

schedulingRequest(rangeStart, rangeEnd, spans, tasks, buffer) ==
    [rangeStart |-> toISOString(rangeStart),
     rangeEnd |-> toISOString(rangeEnd),
     fixedEvents |-> [k \in 1..Len(spans) |-> fixedEvent(k, spans[k])],
     assignments |-> [k \in 1..Len(tasks) |-> assignmentTask(k, tasks[k])],
     constraints |-> [minBufferMinutes |-> buffer]]

\* Any fixed events (malformed, overlapping, out of range and unsorted ones
\* included) with a short backlog.
SmallBacklogs ==
    {<<>>, <<<<60, 45, "HIGH", 0>>>>, <<<<60, 0, "LOW", 0>>>>}

InitEvents ==
    /\ \E rs \in RangeStarts, re \in RangeEnds, b \in Buffers,
          spans \in SeqsUpTo(Points \X Points, MaxEvents), tasks \in SmallBacklogs :
          request = schedulingRequest(rs, re, spans, tasks, b)
    /\ original = request
    /\ calls = <<>>

\* Any backlog over a few calendars (buffer, fixed events) of the range
\* [0, 150): none, disjoint, unsorted, buffered and nested fixed events, a
\* full calendar, and one with an event that ends before it starts.
TaskLayouts ==
    {<<0, <<>>>>,
     <<0, <<<<30, 60>>>>>>,
     <<0, <<<<60, 90>>>>>>,
     <<15, <<<<60, 90>>>>>>,
     <<0, <<<<90, 120>>, <<30, 60>>>>>>,
     <<15, <<<<45, 60>>, <<105, 120>>>>>>,
     <<0, <<<<30, 120>>, <<60, 90>>>>>>,
     <<0, <<<<0, 150>>>>>>,
     <<0, <<<<0, 60>>, <<90, 30>>>>>>}

InitTasks ==
    /\ \E layout \in TaskLayouts,
          tasks \in SeqsUpTo(DueDates \X Durations \X Priorities \X MinBlocks, MaxTasks) :
          request = schedulingRequest(0, 150, layout[2], tasks, layout[1])
    /\ original = request
    /\ calls = <<>>

(***************************************************************************)
(* The one operation: a call of generateWeeklyPlan on the request object.  *)
(***************************************************************************)
returned(run) ==
    /\ request' = [request EXCEPT !.fixedEvents = run.fixedEvents]
    /\ calls' = Append(calls, [result |-> run.value,
                               freeBlocks |-> run.freeBlocks,
                               allocated |-> run.allocated])

GenerateWeeklyPlan ==
    /\ Len(calls) < MaxCalls
    /\ returned(generateWeeklyPlan(request))
    /\ UNCHANGED original

Next == GenerateWeeklyPlan

SpecEvents == InitEvents /\ [][Next]_vars

SpecTasks == InitTasks /\ [][Next]_vars

(***************************************************************************)
(* Vocabulary of the properties.                                           *)
(***************************************************************************)
Range(s) == {s[i] : i \in 1..Len(s)}

startOf(e) == parseDate(e.start)

endOf(e) == parseDate(e.end)

minutesOf(e) == endOf(e) - startOf(e)

\* [a1, a2) and [b1, b2) share an instant
Intersect(a1, a2, b1, b2) == a1 < b2 /\ b1 < a2

BagOfSeq(s) == [x \in Range(s) |-> Cardinality({i \in 1..Len(s) : s[i] = x})]

SortedByStart(s) == \A i \in 1..Len(s) - 1 : startOf(s[i]) <= startOf(s[i + 1])

bufferOf(req) == req.constraints.minBufferMinutes

ChronologicalEvents(req) == \A e \in Range(req.fixedEvents) : startOf(e) < endOf(e)

ChronologicalRange(req) == parseDate(req.rangeStart) < parseDate(req.rangeEnd)

DisjointEvents(req) ==
    \A i, j \in 1..Len(req.fixedEvents) :
        i < j => ~Intersect(startOf(req.fixedEvents[i]), endOf(req.fixedEvents[i]),
                            startOf(req.fixedEvents[j]), endOf(req.fixedEvents[j]))

Malformed(req) ==
    \/ ~ChronologicalEvents(req)
    \/ ~ChronologicalRange(req)
    \/ \E t \in Range(req.assignments) : t.estimatedDurationMinutes <= 0

\* The generated study events of one work item, in the order they were made.
eventsOf(call, task) == SelectSeq(call.allocated, LAMBDA e : e.assignmentId = task.id)

plannedOf(call, task) ==
    SelectSeq(call.result.plannedEvents,
              LAMBDA e : e.id.kind = "gen" /\ e.assignmentId = task.id)

unassignedOf(call, task) ==
    SelectSeq(call.result.unassignedTasks, LAMBDA t : t.id = task.id)

minChunkOf(task) == IF task.minBlockDuration = 0 THEN DefaultMinChunk ELSE task.minBlockDuration

rankOf(task) ==
    CASE task.priority = "HIGH" -> 3 [] task.priority = "MEDIUM" -> 2 [] OTHER -> 1

firstStartOf(call, task) ==
    CHOOSE m \in {startOf(e) : e \in Range(plannedOf(call, task))} :
        \A e \in Range(plannedOf(call, task)) : m <= startOf(e)

FullyPlaced(call, task) ==
    unassignedOf(call, task) = <<>> /\ plannedOf(call, task) # <<>>

RECURSIVE blockMinutes(_)
blockMinutes(blocks) ==
    IF blocks = <<>> THEN 0
    ELSE (Head(blocks).end - Head(blocks).start) + blockMinutes(Tail(blocks))

(***************************************************************************)
(* C1  Duration conservation.                                              *)
(***************************************************************************)
\* C1: for every work item with a positive estimate, the minutes of its
\* generated study events plus the remainder reported for it in
\* unassignedTasks equal its original estimate; with no entry in
\* unassignedTasks the generated minutes alone equal the estimate, and an
\* entry always carries a remainder > 0.
C1_DurationConservation ==
    \A k \in 1..Len(calls) : \A task \in Range(original.assignments) :
        task.estimatedDurationMinutes > 0 =>
            LET placed == sumMinutes(plannedOf(calls[k], task))
                left == unassignedOf(calls[k], task)
            IN  /\ Len(left) <= 1
                /\ left = <<>> => placed = task.estimatedDurationMinutes
                /\ left # <<>> =>
                     /\ left[1].estimatedDurationMinutes > 0
                     /\ placed + left[1].estimatedDurationMinutes
                          = task.estimatedDurationMinutes

\* An item was placed in part: it has study events and a smaller remainder.
C1_Witness ==
    \E k \in 1..Len(calls) : \E task \in Range(original.assignments) :
        /\ plannedOf(calls[k], task) # <<>>
        /\ unassignedOf(calls[k], task) # <<>>
        /\ unassignedOf(calls[k], task)[1].estimatedDurationMinutes
             < task.estimatedDurationMinutes
        /\ \E other \in Range(original.assignments) : FullyPlaced(calls[k], other)

(***************************************************************************)
(* C2  The request is left as the caller passed it.                        *)
(***************************************************************************)
\* C2: after a call, request.fixedEvents holds the same events in the same
\* order as before the call, and request.assignments is unchanged.
C2_RequestUnchanged ==
    calls # <<>> =>
        /\ request.fixedEvents = original.fixedEvents
        /\ request.assignments = original.assignments

\* The part of C2 the code does keep: the backlog array is copied before it
\* is sorted, and the events are the same events (as a multiset).
C2_AssignmentsUnchanged ==
    calls # <<>> =>
        /\ request.assignments = original.assignments
        /\ BagOfSeq(request.fixedEvents) = BagOfSeq(original.fixedEvents)

(***************************************************************************)
(* C3  Free blocks are disjoint and lie in the range.                      *)
(***************************************************************************)
\* C3: for a range with start < end, a buffer >= 0 and fixed events with
\* start < end, the blocks findFreeBlocks returns are pairwise
\* non-overlapping and each lies within [rangeStart, rangeEnd].
C3_FreeBlocksDisjointInRange ==
    \A k \in 1..Len(calls) :
        (ChronologicalRange(original) /\ ChronologicalEvents(original)
           /\ bufferOf(original) >= 0) =>
            LET blocks == calls[k].freeBlocks
            IN  /\ \A i, j \in 1..Len(blocks) :
                       i < j => ~Intersect(blocks[i].start, blocks[i].end,
                                           blocks[j].start, blocks[j].end)
                /\ \A i \in 1..Len(blocks) :
                       /\ blocks[i].start >= parseDate(original.rangeStart)
                       /\ blocks[i].end <= parseDate(original.rangeEnd)

\* The half of C3 that the code keeps: the blocks are in ascending order,
\* each at least 30 minutes long, and no two share an instant.
C3_FreeBlocksDisjoint ==
    \A k \in 1..Len(calls) :
        (ChronologicalEvents(original) /\ bufferOf(original) >= 0) =>
            LET blocks == calls[k].freeBlocks
            IN  /\ \A i \in 1..Len(blocks) :
                       blocks[i].end - blocks[i].start >= MinGapMinutes
                /\ \A i \in 1..Len(blocks) - 1 : blocks[i].end <= blocks[i + 1].start

\* C3 with every fixed event inside the range: then the blocks are too.
C3_InRangeWhenEventsInRange ==
    \A k \in 1..Len(calls) :
        (/\ ChronologicalRange(original) /\ ChronologicalEvents(original)
         /\ \A e \in Range(original.fixedEvents) :
                /\ startOf(e) >= parseDate(original.rangeStart)
                /\ endOf(e) <= parseDate(original.rangeEnd)) =>
            \A i \in 1..Len(calls[k].freeBlocks) :
                /\ calls[k].freeBlocks[i].start >= parseDate(original.rangeStart)
                /\ calls[k].freeBlocks[i].end <= parseDate(original.rangeEnd)

(***************************************************************************)
(* C4  Free time excludes the fixed events and their buffers.              *)
(***************************************************************************)
AvoidsBufferedEvents(call) ==
    \A e \in Range(original.fixedEvents) :
        /\ \A i \in 1..Len(call.freeBlocks) :
               ~Intersect(call.freeBlocks[i].start, call.freeBlocks[i].end,
                          startOf(e) - bufferOf(original), endOf(e) + bufferOf(original))
        /\ \A g \in Range(call.result.plannedEvents) :
               g.id.kind = "gen" =>
                   ~Intersect(startOf(g), endOf(g),
                              startOf(e) - bufferOf(original), endOf(e) + bufferOf(original))

\* C4: when the fixed events (each with start < end) are pairwise
\* non-overlapping, no free block returned by findFreeBlocks and no generated
\* study event intersects [event.start - buffer, event.end + buffer) of any
\* fixed event.
C4_FreeTimeAvoidsBufferedEvents ==
    \A k \in 1..Len(calls) :
        (ChronologicalEvents(original) /\ DisjointEvents(original)) =>
            AvoidsBufferedEvents(calls[k])

\* Two disjoint fixed events given out of order, a buffer, a free block next
\* to a buffer and a study event placed in it.
C4_Witness ==
    \E k \in 1..Len(calls) :
        /\ ChronologicalEvents(original) /\ DisjointEvents(original)
        /\ Len(original.fixedEvents) >= 2
        /\ startOf(original.fixedEvents[1]) > startOf(original.fixedEvents[2])
        /\ bufferOf(original) > 0
        /\ \E i \in 1..Len(calls[k].freeBlocks) : \E e \in Range(original.fixedEvents) :
               calls[k].freeBlocks[i].start = endOf(e) + bufferOf(original)
        /\ calls[k].allocated # <<>>

\* The question C4 leaves open: the same with fixed events that overlap or
\* nest.  It does not hold.
C4_AlsoWhenEventsOverlap ==
    \A k \in 1..Len(calls) :
        ChronologicalEvents(original) => AvoidsBufferedEvents(calls[k])

(***************************************************************************)
(* C5  Priority ordering.                                                  *)
(***************************************************************************)
\* C5 as claimed (over fixed events with start < end): of two fully placed
\* items of different priority, the higher-priority one's earliest study
\* event starts no later than the lower-priority one's, whatever the block
\* sizes and minBlockDuration values.
C5_PriorityOrderingAnyMinBlock ==
    \A k \in 1..Len(calls) : \A hi, lo \in Range(original.assignments) :
        (/\ ChronologicalEvents(original)
         /\ rankOf(hi) > rankOf(lo)
         /\ FullyPlaced(calls[k], hi) /\ FullyPlaced(calls[k], lo)) =>
            firstStartOf(calls[k], hi) <= firstStartOf(calls[k], lo)

\* C5 as amended: over fixed events with start < end, of two fully placed
\* items of different priority, where the higher-priority item's minimum
\* chunk (minBlockDuration, 30 when unset) is not larger than the
\* lower-priority item's, the higher-priority one's earliest study event
\* starts no later than the lower-priority one's.
C5_PriorityOrdering ==
    \A k \in 1..Len(calls) : \A hi, lo \in Range(original.assignments) :
        (/\ ChronologicalEvents(original)
         /\ rankOf(hi) > rankOf(lo)
         /\ minChunkOf(hi) <= minChunkOf(lo)
         /\ FullyPlaced(calls[k], hi) /\ FullyPlaced(calls[k], lo)) =>
            firstStartOf(calls[k], hi) <= firstStartOf(calls[k], lo)

\* The amended C5 without its condition on the fixed events: an event that
\* ends before it starts puts the free blocks out of chronological order.
C5_PriorityOrderingAnyEvents ==
    \A k \in 1..Len(calls) : \A hi, lo \in Range(original.assignments) :
        (/\ rankOf(hi) > rankOf(lo)
         /\ minChunkOf(hi) <= minChunkOf(lo)
         /\ FullyPlaced(calls[k], hi) /\ FullyPlaced(calls[k], lo)) =>
            firstStartOf(calls[k], hi) <= firstStartOf(calls[k], lo)

\* A LOW item given first and a HIGH item given second, both fully placed,
\* the HIGH one strictly earlier.
C5_Witness ==
    \E k \in 1..Len(calls) :
        /\ Len(original.assignments) = 2
        /\ ChronologicalEvents(original)
        /\ rankOf(original.assignments[2]) > rankOf(original.assignments[1])
        /\ minChunkOf(original.assignments[2]) <= minChunkOf(original.assignments[1])
        /\ FullyPlaced(calls[k], original.assignments[1])
        /\ FullyPlaced(calls[k], original.assignments[2])
        /\ firstStartOf(calls[k], original.assignments[2])
             < firstStartOf(calls[k], original.assignments[1])

(***************************************************************************)
(* C6  plannedEvents is the sorted union.                                  *)
(***************************************************************************)
\* C6: plannedEvents is sorted ascending by start and is, as a multiset, the
\* input fixed events together with the generated study events: every input
\* fixed event once, unchanged, and nothing else.
C6_PlannedEventsSortedUnion ==
    \A k \in 1..Len(calls) :
        /\ SortedByStart(calls[k].result.plannedEvents)
        /\ BagOfSeq(calls[k].result.plannedEvents)
             = BagOfSeq(original.fixedEvents \o calls[k].allocated)
        /\ \A e \in Range(original.fixedEvents) :
               Cardinality({i \in 1..Len(calls[k].result.plannedEvents) :
                              calls[k].result.plannedEvents[i].id = e.id}) = 1

\* Fixed events given out of order and a study event that sorts between them.
C6_Witness ==
    \E k \in 1..Len(calls) :
        LET planned == calls[k].result.plannedEvents
        IN  /\ Len(original.fixedEvents) = 2
            /\ startOf(original.fixedEvents[1]) > startOf(original.fixedEvents[2])
            /\ Len(planned) = 3
            /\ planned[1] = original.fixedEvents[2]
            /\ planned[2].id.kind = "gen"
            /\ planned[3] = original.fixedEvents[1]

(***************************************************************************)
(* C7  Idempotence.                                                        *)
(***************************************************************************)
\* C7: a second call on the same request object returns the same
\* plannedEvents (same order), unassignedTasks and metrics as the first.
C7_SecondCallSameResult ==
    \A k \in 2..Len(calls) : calls[k].result = calls[1].result

\* Two calls on fixed events of which two start at the same instant (the
\* case an unstable sort would reorder from call to call), with a study
\* event generated.
C7_Witness ==
    /\ Len(calls) >= 2
    /\ \E i, j \in 1..Len(original.fixedEvents) :
           /\ i < j
           /\ startOf(original.fixedEvents[i]) = startOf(original.fixedEvents[j])
           /\ endOf(original.fixedEvents[i]) # endOf(original.fixedEvents[j])
    /\ calls[1].allocated # <<>>

\* Two calls on fixed events that the first call reordered in the request.
C7_WitnessUnsorted ==
    /\ Len(calls) >= 2
    /\ request.fixedEvents # original.fixedEvents
    /\ calls[1].allocated # <<>>

(***************************************************************************)
(* C8  Malformed input fails fast.                                         *)
(***************************************************************************)
\* C8: for a request with a fixed event with start >= end, a work item with
\* a duration <= 0 or rangeStart >= rangeEnd, no call returns a normal
\* result: an error is surfaced (here, a populated errors field; the code has
\* no throw statement).
C8_MalformedInputRejected ==
    \A k \in 1..Len(calls) : Malformed(original) => calls[k].result.errors # <<>>

\* What the code does instead: every call returns a schedule without errors.
C8_NoErrorEver ==
    \A k \in 1..Len(calls) : calls[k].result.errors = <<>>

(***************************************************************************)
(* C9  Minimum chunk.                                                      *)
(***************************************************************************)
\* C9: every generated study event of a work item lasts at least that item's
\* minBlockDuration (30 when unset).
C9_EveryChunkAtLeastMinBlock ==
    \A k \in 1..Len(calls) : \A task \in Range(original.assignments) :
        \A e \in Range(eventsOf(calls[k], task)) : minutesOf(e) >= minChunkOf(task)

\* What the code keeps: every chunk of an item but its last lasts at least
\* minBlockDuration, and the last is positive.
C9_AllButLastChunk ==
    \A k \in 1..Len(calls) : \A task \in Range(original.assignments) :
        LET chunks == eventsOf(calls[k], task)
        IN  \A i \in 1..Len(chunks) :
                /\ minutesOf(chunks[i]) > 0
                /\ i < Len(chunks) => minutesOf(chunks[i]) >= minChunkOf(task)

(***************************************************************************)
(* C10  No double-booking of free time.                                    *)
(***************************************************************************)
\* C10: over fixed events with start < end, no two generated study events
\* overlap, each lies inside one of the free blocks findFreeBlocks returned,
\* and the allocated minutes do not exceed the minutes of those blocks.
C10_NoDoubleBooking ==
    \A k \in 1..Len(calls) :
        LET gen == calls[k].allocated
            blocks == calls[k].freeBlocks
        IN  ChronologicalEvents(original) =>
            /\ \A i, j \in 1..Len(gen) :
                   i < j => ~Intersect(startOf(gen[i]), endOf(gen[i]),
                                       startOf(gen[j]), endOf(gen[j]))
            /\ \A i \in 1..Len(gen) : \E b \in 1..Len(blocks) :
                   /\ blocks[b].start <= startOf(gen[i])
                   /\ endOf(gen[i]) <= blocks[b].end
                   /\ startOf(gen[i]) < endOf(gen[i])
            /\ calls[k].result.metrics.allocatedStudyMinutes <= blockMinutes(blocks)
            /\ calls[k].result.metrics.allocatedStudyMinutes = sumMinutes(gen)

\* Two different items share one free block, back to back, and all the free
\* time is used.
C10_Witness ==
    \E k \in 1..Len(calls) :
        LET gen == calls[k].allocated
        IN  /\ \E i, j \in 1..Len(gen) :
                   /\ gen[i].assignmentId # gen[j].assignmentId
                   /\ gen[i].id.block = gen[j].id.block
                   /\ endOf(gen[i]) = startOf(gen[j])
            /\ Len(calls[k].freeBlocks) >= 2
            /\ sumMinutes(gen) = blockMinutes(calls[k].freeBlocks)

====
